---- MODULE Spec2Model ----
(***************************************************************************)
(* Model of SVGConverter (src/main.js): the CSS-to-inline-style conversion *)
(* of an SVG document, and the editor handlers that trigger it.            *)
(*                                                                         *)
(* Text (CSS text, selectors, attribute values, tag names) is a sequence   *)
(* of one-character strings, so that the parsers work on characters as the *)
(* code does.  A JavaScript object used as a property map is the sequence  *)
(* of its <<key, value>> entries in Object.entries order.                  *)
(***************************************************************************)
EXTENDS Integers, Sequences, FiniteSets, TLC

(***************************************************************************)
(* JavaScript string primitives                                            *)
(***************************************************************************)
Digits == {"0", "1", "2", "3", "4", "5", "6", "7", "8", "9"}

Letters == {"a", "b", "c", "d", "e", "f", "g", "l", "r", "s", "t", "v", "x", "y"}

IsSpace(c) == c = " "

IsBrace(c) == c \in {"{", "}"}

\* String.prototype.substring(from, to) with 0-based from (inclusive), to (exclusive)
Substring(s, from, to) == SubSeq(s, from + 1, to)

RECURSIVE TrimLeft(_)
TrimLeft(s) ==
    IF s = <<>> THEN <<>>
    ELSE IF IsSpace(Head(s)) THEN TrimLeft(Tail(s)) ELSE s

RECURSIVE TrimRight(_)
TrimRight(s) ==
    IF s = <<>> THEN <<>>
    ELSE IF IsSpace(s[Len(s)]) THEN TrimRight(SubSeq(s, 1, Len(s) - 1)) ELSE s

\* String.prototype.trim
Trim(s) == TrimRight(TrimLeft(s))

\* String.prototype.indexOf(c): 0-based index of the first c, -1 when absent
IndexOf(s, c) ==
    IF \E i \in 1..Len(s) : s[i] = c
    THEN (CHOOSE i \in 1..Len(s) : s[i] = c /\ \A j \in 1..(i - 1) : s[j] # c) - 1
    ELSE -1

\* String.prototype.split(c): the pieces between the occurrences of c
RECURSIVE Split(_, _)
Split(s, c) ==
    LET i == IndexOf(s, c)
    IN  IF i = -1 THEN <<s>>
        ELSE <<Substring(s, 0, i)>> \o Split(Substring(s, i + 1, Len(s)), c)

\* Array.prototype.join(sep) of an array of strings
RECURSIVE Join(_, _)
Join(parts, sep) ==
    IF parts = <<>> THEN <<>>
    ELSE IF Len(parts) = 1 THEN parts[1]
    ELSE parts[1] \o sep \o Join(Tail(parts), sep)

(***************************************************************************)
(* JavaScript objects as ordered property maps.  Object.entries lists the  *)
(* array-index keys first, in ascending numeric order, then the other      *)
(* string keys in the order they were first set.                           *)
(***************************************************************************)
DigitVal(c) ==
    CASE c = "0" -> 0 [] c = "1" -> 1 [] c = "2" -> 2 [] c = "3" -> 3
      [] c = "4" -> 4 [] c = "5" -> 5 [] c = "6" -> 6 [] c = "7" -> 7
      [] c = "8" -> 8 [] c = "9" -> 9

RECURSIVE NumVal(_)
NumVal(k) == IF k = <<>> THEN 0 ELSE NumVal(SubSeq(k, 1, Len(k) - 1)) * 10 + DigitVal(k[Len(k)])

\* a canonical numeric string below 2^32 - 1 (at most 9 digits here)
IsArrayIndex(k) ==
    /\ k # <<>>
    /\ Len(k) <= 9
    /\ \A i \in 1..Len(k) : k[i] \in Digits
    /\ (k[1] = "0" => Len(k) = 1)

HasKey(obj, k) == \E i \in 1..Len(obj) : obj[i][1] = k

ObjGet(obj, k) == obj[CHOOSE i \in 1..Len(obj) : obj[i][1] = k][2]

\* where a new key k is created among the entries of obj
InsertPos(obj, k) ==
    IF IsArrayIndex(k)
    THEN 1 + Cardinality({i \in 1..Len(obj) :
                            IsArrayIndex(obj[i][1]) /\ NumVal(obj[i][1]) < NumVal(k)})
    ELSE Len(obj) + 1

\* obj[k] = v
ObjSet(obj, k, v) ==
    IF HasKey(obj, k)
    THEN [i \in 1..Len(obj) |-> IF obj[i][1] = k THEN <<k, v>> ELSE obj[i]]
    ELSE LET p == InsertPos(obj, k)
         IN  SubSeq(obj, 1, p - 1) \o <<(<<k, v>>)>> \o SubSeq(obj, p, Len(obj))

\* { ...target, ...source }: the entries of source set on target in order
RECURSIVE ObjAssign(_, _)
ObjAssign(target, source) ==
    IF source = <<>> THEN target
    ELSE ObjAssign(ObjSet(target, source[1][1], source[1][2]), Tail(source))

(***************************************************************************)
(* parseStyleDeclarations / parseInlineStyle                               *)
(***************************************************************************)
\* the body of the forEach callback: one declaration set on styles, or dropped
ParseDeclaration(styles, declaration) ==
    LET colonIndex == IndexOf(declaration, ":")
    IN  IF colonIndex > 0
        THEN LET property == Trim(Substring(declaration, 0, colonIndex))
                 value    == Trim(Substring(declaration, colonIndex + 1, Len(declaration)))
             IN  IF property # <<>> /\ value # <<>>
                 THEN ObjSet(styles, property, value)
                 ELSE styles
        ELSE styles

RECURSIVE ParseDeclarationsFrom(_, _)
ParseDeclarationsFrom(styles, declarationsArray) ==
    IF declarationsArray = <<>> THEN styles
    ELSE ParseDeclarationsFrom(ParseDeclaration(styles, Head(declarationsArray)),
                               Tail(declarationsArray))

parseStyleDeclarations(declarations) ==
    ParseDeclarationsFrom(<<>>, Split(declarations, ";"))

parseInlineStyle(styleString) ==
    IF styleString = <<>> THEN <<>>
    ELSE ParseDeclarationsFrom(<<>>, Split(styleString, ";"))

(***************************************************************************)
(* parseCSS: the global rule regex (non-brace run, "{", non-brace run, "}") *)
(* executed repeatedly over the text                                       *)
(***************************************************************************)
\* 1-based position of the first brace at or after p, Len(t) + 1 when none
NextBrace(t, p) ==
    IF \E i \in p..Len(t) : IsBrace(t[i])
    THEN CHOOSE i \in p..Len(t) : IsBrace(t[i]) /\ \A j \in p..(i - 1) : ~IsBrace(t[j])
    ELSE Len(t) + 1

\* the regex matches at p: a non-empty brace-free run, "{", a brace-free run, "}"
MatchAt(t, p) ==
    LET j == NextBrace(t, p)
        k == NextBrace(t, j + 1)
    IN  /\ p <= Len(t)
        /\ j > p
        /\ j <= Len(t) /\ t[j] = "{"
        /\ k <= Len(t) /\ t[k] = "}"

\* the rule pushed for the match at p, as a list of zero or one rules
RuleOfMatch(t, p) ==
    LET j == NextBrace(t, p)
        k == NextBrace(t, j + 1)
        selector     == Trim(SubSeq(t, p, j - 1))
        declarations == Trim(SubSeq(t, j + 1, k - 1))
    IN  IF selector # <<>> /\ declarations # <<>>
        THEN <<[selector |-> selector, styles |-> parseStyleDeclarations(declarations)]>>
        ELSE <<>>

\* lastIndex after the match at p
AfterMatch(t, p) == NextBrace(t, NextBrace(t, p) + 1) + 1

RECURSIVE ParseCSSFrom(_, _)
ParseCSSFrom(t, p) ==
    IF p > Len(t) THEN <<>>
    ELSE IF MatchAt(t, p) THEN RuleOfMatch(t, p) \o ParseCSSFrom(t, AfterMatch(t, p))
    ELSE ParseCSSFrom(t, p + 1)

parseCSS(cssText) == ParseCSSFrom(cssText, 1)

(***************************************************************************)
(* The document tree.  A document is the sequence of its elements in       *)
(* document order; each element records its tag, the index of its parent   *)
(* (0: no parent), its class and style attributes and its own text, which  *)
(* precedes its child elements.                                            *)
(***************************************************************************)
Str_svg   == <<"s", "v", "g">>
Str_style == <<"s", "t", "y", "l", "e">>
Str_hasClass == <<"[", "c", "l", "a", "s", "s", "]">>
Str_classTok == <<"[", "c", "l", "a", "s", "s", "~", "=", "\"">>

Elem(tag, parent, hasClass, class, hasStyle, style, text) ==
    [tag |-> tag, parent |-> parent, hasClass |-> hasClass, class |-> class,
     hasStyle |-> hasStyle, style |-> style, text |-> text]

Indices(nodes) == [i \in 1..Len(nodes) |-> i]

\* n lies strictly below a
RECURSIVE Descendant(_, _, _)
Descendant(nodes, a, n) ==
    LET p == nodes[n].parent
    IN  IF p = 0 THEN FALSE
        ELSE IF p = a THEN TRUE
        ELSE Descendant(nodes, a, p)

Children(nodes, n) == SelectSeq(Indices(nodes), LAMBDA i : nodes[i].parent = n)

RECURSIVE ConcatText(_, _)
ConcatText(nodes, idx) ==
    IF idx = <<>> THEN <<>> ELSE nodes[Head(idx)].text \o ConcatText(nodes, Tail(idx))

\* Node.textContent: the text of the element and of everything below it
textContent(nodes, n) ==
    ConcatText(nodes, SelectSeq(Indices(nodes), LAMBDA i : i = n \/ Descendant(nodes, n, i)))

\* getAttribute(name) || ''
AttrOrEmpty(has, val) == IF has THEN val ELSE <<>>

\* markup of the element n and its subtree
RECURSIVE Markup(_, _)
RECURSIVE MarkupAll(_, _)
Markup(nodes, n) ==
    LET e     == nodes[n]
        attrs == (IF e.hasClass
                  THEN <<" ", "c", "l", "a", "s", "s", "=", "\"">> \o e.class \o <<"\"">>
                  ELSE <<>>)
                 \o (IF e.hasStyle
                     THEN <<" ", "s", "t", "y", "l", "e", "=", "\"">> \o e.style \o <<"\"">>
                     ELSE <<>>)
        inner == e.text \o MarkupAll(nodes, Children(nodes, n))
    IN  IF inner = <<>>
        THEN <<"<">> \o e.tag \o attrs \o <<"/", ">">>
        ELSE <<"<">> \o e.tag \o attrs \o <<">">> \o inner \o <<"<", "/">> \o e.tag \o <<">">>
MarkupAll(nodes, idx) ==
    IF idx = <<>> THEN <<>> ELSE Markup(nodes, Head(idx)) \o MarkupAll(nodes, Tail(idx))

\* Element.innerHTML: the element's text and the markup of its children
innerHTML(nodes, n) == nodes[n].text \o MarkupAll(nodes, Children(nodes, n))

(***************************************************************************)
(* The structural selector query (Element.querySelectorAll).  The selector *)
(* subset understood: a compound selector made of an optional type or      *)
(* universal selector followed by class selectors and class attribute      *)
(* selectors.  Any other text is a syntax error, which the query throws.   *)
(***************************************************************************)
IsIdentChar(c) == c \in Letters \/ c \in Digits

\* length of the identifier that starts s, 0 when s starts with none
IdentLen(s) ==
    IF s = <<>> \/ Head(s) \notin Letters THEN 0
    ELSE IF \E i \in 1..Len(s) : ~IsIdentChar(s[i])
         THEN (CHOOSE i \in 1..Len(s) : ~IsIdentChar(s[i]) /\ \A j \in 1..(i - 1) : IsIdentChar(s[j])) - 1
         ELSE Len(s)

StartsWith(s, prefix) == Len(s) >= Len(prefix) /\ SubSeq(s, 1, Len(prefix)) = prefix

Drop(s, n) == SubSeq(s, n + 1, Len(s))

\* the class selectors and class attribute selectors that follow the type selector:
\* [ok, classes: the tokens required, attr: the class attribute is required]
RECURSIVE ParseParts(_)
ParseParts(s) ==
    IF s = <<>> THEN [ok |-> TRUE, classes |-> {}, attr |-> FALSE]
    ELSE IF Head(s) = "." /\ IdentLen(Tail(s)) > 0
    THEN LET n    == IdentLen(Tail(s))
             rest == ParseParts(Drop(s, n + 1))
         IN  [rest EXCEPT !.classes = @ \cup {SubSeq(s, 2, n + 1)}]
    ELSE IF StartsWith(s, Str_hasClass)
    THEN [ParseParts(Drop(s, Len(Str_hasClass))) EXCEPT !.attr = TRUE]
    ELSE IF StartsWith(s, Str_classTok)
    THEN LET v == Drop(s, Len(Str_classTok))
             q == IndexOf(v, "\"")
         IN  IF q >= 0 /\ Len(v) >= q + 2 /\ v[q + 2] = "]"
             THEN LET rest == ParseParts(Drop(v, q + 2))
                  IN  [rest EXCEPT !.classes = @ \cup {Substring(v, 0, q)}]
             ELSE [ok |-> FALSE, classes |-> {}, attr |-> FALSE]
    ELSE [ok |-> FALSE, classes |-> {}, attr |-> FALSE]

\* [ok, anyTag, tag, classes, attr]
ParseSelector(s) ==
    LET n     == IdentLen(s)
        star  == s # <<>> /\ Head(s) = "*"
        parts == ParseParts(IF star THEN Tail(s) ELSE Drop(s, n))
    IN  [ok      |-> s # <<>> /\ parts.ok,
         anyTag  |-> n = 0,
         tag     |-> SubSeq(s, 1, n),
         classes |-> parts.classes,
         attr    |-> parts.attr]

\* the query accepts the selector (it throws a SyntaxError otherwise)
SelectorValid(s) == ParseSelector(s).ok

\* the whitespace-separated tokens of a class attribute
ClassTokens(e) ==
    IF e.hasClass
    THEN LET parts == Split(e.class, " ")
         IN  {parts[i] : i \in 1..Len(parts)} \ {<<>>}
    ELSE {}

ElementMatches(e, sel) ==
    /\ sel.anyTag \/ e.tag = sel.tag
    /\ sel.attr => e.hasClass
    /\ sel.classes \subseteq ClassTokens(e)

\* root.querySelectorAll(s): the matching elements below root, in document order
querySelectorAll(nodes, root, s) ==
    LET sel == ParseSelector(s)
    IN  SelectSeq(Indices(nodes),
                  LAMBDA i : Descendant(nodes, root, i) /\ ElementMatches(nodes[i], sel))

\* doc.querySelector('svg'): the first svg element of the document, 0 when none
FirstSvg(nodes) ==
    IF \E i \in 1..Len(nodes) : nodes[i].tag = Str_svg
    THEN CHOOSE i \in 1..Len(nodes) :
            nodes[i].tag = Str_svg /\ \A j \in 1..(i - 1) : nodes[j].tag # Str_svg
    ELSE 0

(***************************************************************************)
(* applyStylesToElement                                                    *)
(***************************************************************************)
\* Object.entries(mergedStyles).map(([prop, value]) => `${prop}:${value}`)
EntryStrings(obj) == [i \in 1..Len(obj) |-> obj[i][1] \o <<":">> \o obj[i][2]]

\* the style attribute text written for the existing text and the new styles
MergedStyleString(existingStyle, newStyles) ==
    LET existingStyles == parseInlineStyle(existingStyle)
        mergedStyles   == ObjAssign(ObjAssign(<<>>, existingStyles), newStyles)
    IN  Join(EntryStrings(mergedStyles), <<";">>)

applyStylesToElement(element, newStyles) ==
    [element EXCEPT
        !.hasStyle = TRUE,
        !.style = MergedStyleString(AttrOrEmpty(element.hasStyle, element.style), newStyles)]

(***************************************************************************)
(* convertEmbeddedCSSToInline                                              *)
(***************************************************************************)
\* mutant of removeChild: the element stays where it is
removeChildKeepsNode(nodes, n) == nodes

\* parentNode.removeChild(n): n and its subtree leave the tree
removeChild(nodes, n) == [nodes EXCEPT ![n].parent = 0]

\* a || b on strings
OrElse(a, b) == IF a # <<>> THEN a ELSE b

\* styleEl.textContent || styleEl.innerHTML
CssTextOf(nodes, n) == OrElse(textContent(nodes, n), innerHTML(nodes, n))

\* mutant of PushAll: the rules are put in front of the list (unshift)
PushAllFront(cssRules, rules) == rules \o cssRules

\* cssRules.push(...rules)
PushAll(cssRules, rules) == cssRules \o rules

\* the forEach over the style elements: [nodes, cssRules] after it
RECURSIVE ExtractFrom(_, _, _)
ExtractFrom(nodes, styleElements, cssRules) ==
    IF styleElements = <<>> THEN [nodes |-> nodes, cssRules |-> cssRules]
    ELSE ExtractFrom(removeChild(nodes, Head(styleElements)), Tail(styleElements),
                     PushAll(cssRules, parseCSS(CssTextOf(nodes, Head(styleElements)))))

ExtractRules(nodes, svg) ==
    ExtractFrom(nodes, querySelectorAll(nodes, svg, Str_style), <<>>)

\* the inner forEach of a pass: styles merged into each of the elements
RECURSIVE ApplyToAll(_, _, _)
ApplyToAll(nodes, elements, styles) ==
    IF elements = <<>> THEN nodes
    ELSE ApplyToAll([nodes EXCEPT ![Head(elements)] = applyStylesToElement(@, styles)],
                    Tail(elements), styles)

\* mutant of CountRule: convertedStyles counts the matches, not the rule
CountRulePerMatch(st, n) ==
    [st EXCEPT !.processedElements = @ + n, !.convertedStyles = @ + n]

\* the counters after one rule of the structural pass matched n elements
CountRule(st, n) ==
    [st EXCEPT !.processedElements = @ + n, !.convertedStyles = @ + 1]

\* the body of the structural pass for one rule and the elements it matched
ApplyRule(st, rule, elements) ==
    CountRule([st EXCEPT !.nodes = ApplyToAll(@, elements, rule.styles)], Len(elements))

\* one rule of the structural pass; a selector the query rejects throws
StructuralStep(st, svg, rule) ==
    IF ~SelectorValid(rule.selector) THEN [st EXCEPT !.threw = TRUE]
    ELSE ApplyRule(st, rule, querySelectorAll(st.nodes, svg, rule.selector))

\* the structural pass, rule by rule, until a rule throws
RECURSIVE StructuralPass(_, _, _)
StructuralPass(st, svg, rules) ==
    IF rules = <<>> \/ st.threw THEN st
    ELSE StructuralPass(StructuralStep(st, svg, Head(rules)), svg, Tail(rules))

\* rule.selector === `.${className}` || rule.selector === `*[class~="${className}"]`
ClassRuleMatches(selector, className) ==
    \/ selector = <<".">> \o className
    \/ selector = <<"*">> \o Str_classTok \o className \o <<"\"", "]">>

\* the rules the class pass applies to an element with this class name
ClassRules(cssRules, className) ==
    SelectSeq(cssRules, LAMBDA rule : ClassRuleMatches(rule.selector, className))

RECURSIVE ApplyRulesTo(_, _)
ApplyRulesTo(element, rules) ==
    IF rules = <<>> THEN element
    ELSE ApplyRulesTo(applyStylesToElement(element, Head(rules).styles), Tail(rules))

\* the element is handled by the class pass: if (className)
ClassPassHandles(element) == element.class # <<>>

\* the class pass on one element: the matching rules merged, the class removed
ClassPassElement(element, cssRules) ==
    IF ClassPassHandles(element)
    THEN [ApplyRulesTo(element, ClassRules(cssRules, element.class))
            EXCEPT !.hasClass = FALSE, !.class = <<>>]
    ELSE element

\* svg.querySelectorAll('[class]')
ElementsWithClass(nodes, svg) == querySelectorAll(nodes, svg, Str_hasClass)

\* the merges the class pass counts for an element
ClassPassCount(element, cssRules) ==
    IF ClassPassHandles(element) THEN Len(ClassRules(cssRules, element.class)) ELSE 0

\* the class pass on the element with index e
ClassPassStep(st, e, cssRules) ==
    [st EXCEPT !.processedElements = @ + ClassPassCount(st.nodes[e], cssRules),
               !.nodes[e] = ClassPassElement(@, cssRules)]

RECURSIVE ClassPass(_, _, _)
ClassPass(st, elements, cssRules) ==
    IF elements = <<>> THEN st
    ELSE ClassPass(ClassPassStep(st, Head(elements), cssRules), Tail(elements), cssRules)

\* the counters and the rule list before the passes
StartPasses(extracted) ==
    [threw |-> FALSE, nodes |-> extracted.nodes, convertedStyles |-> 0,
     processedElements |-> 0, cssRules |-> extracted.cssRules]

\* the class pass follows the structural pass unless that one threw
AfterStructuralPass(st, svg) ==
    IF st.threw THEN st ELSE ClassPass(st, ElementsWithClass(st.nodes, svg), st.cssRules)

RunPasses(extracted, svg) ==
    AfterStructuralPass(StructuralPass(StartPasses(extracted), svg, extracted.cssRules), svg)

\* the whole function: [threw, nodes, convertedStyles, processedElements, cssRules]
convertEmbeddedCSSToInline(nodes, svg) == RunPasses(ExtractRules(nodes, svg), svg)

\* XMLSerializer.serializeToString(svg): the markup of the svg subtree
serializeToString(nodes, svg) == Markup(nodes, svg)

(***************************************************************************)
(* Bounds and inputs                                                       *)
(***************************************************************************)
\* CSS blocks concatenated in the text of the first style element
MaxBlocks == 2

\* editor changes in one run of the editor specification
MaxChanges == 3

\* clock ticks in one run of the editor specification
MaxTicks == 6

\* declaration fragments of the existing style text in the merge specification
MaxDecls == 3

\* the debounce wait in milliseconds
Wait == 500

\* the clock advances in steps of half the wait
TickStep == Wait \div 2

E == <<>>

Str_g == <<"g">>
Str_d == <<"d">>
Str_parsererror == <<"p", "a", "r", "s", "e", "r", "e", "r", "r", "o", "r">>

\* the CSS blocks the style texts are built from
CssBlocks ==
    { <<".", "a", "{", "f", ":", "1", "}">>,
      <<".", "a", "{", "f", ":", "2", ";", "x", ":", "1", "}">>,
      <<"g", "{", "f", ":", "2", "}">>,
      <<"*", "[", "c", "l", "a", "s", "s", "~", "=", "\"", "a", "\"", "]", "{", "x", ":", "2", "}">>,
      <<".", "a", "{", "x", "}">>,
      <<"1", "{", "f", ":", "1", "}">>,
      <<" ", ".", "b", " ", "{", " ", "}">>,
      <<".", "b", "{", "f", ":", "1", ";", ";", "x", ";", ":", "y", ";", "1", ":", "2", "}">>,
      <<"a", "{", "b", "{", "f", ":", "1", "}", "c", "}">> }

\* the texts made of at most n blocks
RECURSIVE TextsUpTo(_)
TextsUpTo(n) ==
    IF n = 0 THEN {E}
    ELSE TextsUpTo(n - 1) \cup {t \o b : t \in TextsUpTo(n - 1), b \in CssBlocks}

\* an attribute: absent, or present with a value
Absent == [has |-> FALSE, val |-> E]
Attr(v) == [has |-> TRUE, val |-> v]

ClassAttrs == {Absent, Attr(E), Attr(<<"a">>), Attr(<<"b">>), Attr(<<"a", " ", "b">>)}

StyleAttrs == {Absent, Attr(<<"x", ":", " ", "1", ";", "f", ":", "3", ";">>)}

SecondTexts == {E, <<"g", "{", "y", ":", "2", "}">>, <<".", "a", "{", "f", ":", "2", "}">>}

Plain(tag, parent) == Elem(tag, parent, FALSE, E, FALSE, E, E)

\* <svg class=sc><style>t1</style><g class=c style=s><style>t2</style><g class="a"/></g></svg>
DocPlain(sc, t1, c, st, t2) ==
    << Elem(Str_svg, 0, sc.has, sc.val, FALSE, E, E),
       Elem(Str_style, 1, FALSE, E, FALSE, E, t1),
       Elem(Str_g, 1, c.has, c.val, st.has, st.val, E),
       Elem(Str_style, 3, FALSE, E, FALSE, E, t2),
       Elem(Str_g, 3, TRUE, <<"a">>, FALSE, E, E) >>

\* <svg><style>t1<style>t2</style></style><g class=c/></svg>
DocStyleInStyle(t1, t2, c) ==
    << Plain(Str_svg, 0),
       Elem(Str_style, 1, FALSE, E, FALSE, E, t1),
       Elem(Str_style, 2, FALSE, E, FALSE, E, t2),
       Elem(Str_g, 1, c.has, c.val, FALSE, E, E) >>

\* <d><style>t1</style><svg><style>t1</style><g class=c/></svg></d>
DocWrapped(t1, c) ==
    << Plain(Str_d, 0),
       Elem(Str_style, 1, FALSE, E, FALSE, E, t1),
       Plain(Str_svg, 1),
       Elem(Str_style, 3, FALSE, E, FALSE, E, t1),
       Elem(Str_g, 3, c.has, c.val, FALSE, E, E) >>

\* <g><style>.a{f:1}</style></g>: well-formed, no svg element
DocNoSvg == << Plain(Str_g, 0), Elem(Str_style, 1, FALSE, E, FALSE, E, <<".", "a", "{", "f", ":", "1", "}">>) >>

\* <svg><style><g class="}a{f:1}"/></style><g/></svg>: a style element without text
DocMarkupInStyle ==
    << Plain(Str_svg, 0),
       Plain(Str_style, 1),
       Elem(Str_g, 2, TRUE, <<"}", "a", "{", "f", ":", "1", "}">>, FALSE, E, E),
       Plain(<<"a">>, 1) >>

\* <svg><parsererror/></svg>
DocParserErrorElement == << Plain(Str_svg, 0), Plain(Str_parsererror, 1) >>

\* the content of the input editor: blank, text that does not parse, or a document
Blank == [kind |-> "blank", nodes |-> E]
Malformed == [kind |-> "malformed", nodes |-> E]
Xml(nodes) == [kind |-> "xml", nodes |-> nodes]

TreeDocs ==
    {DocPlain(Absent, t1, c, st, <<"g", "{", "y", ":", "2", "}">>) :
        t1 \in TextsUpTo(MaxBlocks), c \in ClassAttrs, st \in StyleAttrs}
    \cup {DocPlain(sc, t1, c, Absent, t2) :
            sc \in {Absent, Attr(<<"a">>)}, t1 \in TextsUpTo(1), c \in ClassAttrs, t2 \in SecondTexts}
    \cup {DocStyleInStyle(t1, t2, Attr(<<"a">>)) : t1 \in TextsUpTo(1), t2 \in SecondTexts}
    \cup {DocWrapped(t1, Attr(<<"a">>)) : t1 \in TextsUpTo(1)}
    \cup {DocNoSvg, DocParserErrorElement, DocMarkupInStyle}

Docs == {Blank, Malformed} \cup {Xml(n) : n \in TreeDocs}

\* the documents typed in the editor specification
EditorDocs ==
    { Blank, Malformed, Xml(DocNoSvg),
      Xml(DocPlain(Absent, <<".", "a", "{", "f", ":", "1", "}">>, Attr(<<"a">>), Absent, E)),
      Xml(DocPlain(Absent, <<"1", "{", "f", ":", "1", "}">>, Attr(<<"a">>), Absent, E)),
      Xml(DocPlain(Attr(<<"a">>), <<"g", "{", "f", ":", "2", "}">>, Absent, Attr(<<"f", ":", "1">>), E)) }

(***************************************************************************)
(* The converter's state                                                   *)
(***************************************************************************)
VARIABLES
    inputEditor,     \* content of the input editor
    outputMarkup,    \* markup last written to the output editor
    preview,         \* content of the preview container
    statsShown,      \* the convertedStyles / processedElements counters displayed
    status,          \* conversion status indicator and message
    notification,    \* last notification shown
    timers,          \* due times of the pending debounce timers, oldest first
    now,             \* current time in milliseconds
    ret,             \* last value returned by convertEmbeddedCSSToInline, with its input
    calls,           \* convertSVG calls made by debounce timers
    changes,         \* input editor changes so far
    lastChange,      \* time of the last input editor change
    burst,           \* every change so far came less than Wait after the one before
    mergeElement,    \* merge specification: the element applyStylesToElement works on
    mergeDecls,      \* merge specification: the declaration text of the incoming styles
    mergePrev,       \* merge specification: the element before the merge
    mergeDone        \* merge specification: the merge has run

editorVars == <<inputEditor, outputMarkup, preview, statsShown, status, notification,
                timers, now, ret, calls, changes, lastChange, burst>>

mergeVars == <<mergeElement, mergeDecls, mergePrev, mergeDone>>

vars == <<editorVars, mergeVars>>

Placeholder == [kind |-> "placeholder", markup |-> E]

NoReturn == [valid |-> FALSE, source |-> E, svg |-> 0, nodes |-> E, convertedStyles |-> 0,
             processedElements |-> 0, cssRules |-> E]

NoMerge ==
    /\ mergeElement = Plain(Str_g, 0)
    /\ mergeDecls = E
    /\ mergePrev = Plain(Str_g, 0)
    /\ mergeDone = FALSE

InitEditor ==
    /\ inputEditor = Blank
    /\ outputMarkup = E
    /\ preview = Placeholder
    /\ statsShown = [convertedStyles |-> 0, processedElements |-> 0]
    /\ status = [kind |-> "ready", message |-> "Ready to convert", count |-> 0]
    /\ notification = "none"
    /\ timers = <<>>
    /\ now = 0
    /\ ret = NoReturn
    /\ calls = 0
    /\ changes = 0
    /\ lastChange = 0
    /\ burst = TRUE

Init == InitEditor /\ NoMerge

(***************************************************************************)
(* convertSVG                                                              *)
(***************************************************************************)
HasTag(nodes, tag) == \E i \in 1..Len(nodes) : nodes[i].tag = tag

\* the rest of the try block once convertEmbeddedCSSToInline has run on the svg element
AfterConversion(source, svg, result) ==
    IF result.threw
    THEN [error |-> TRUE, message |-> "SyntaxError: not a valid selector",
          ret |-> NoReturn, markup |-> E]
    ELSE [error |-> FALSE, message |-> "Converted",
          ret |-> [valid |-> TRUE, source |-> source, svg |-> svg,
                   nodes |-> result.nodes,
                   convertedStyles |-> result.convertedStyles,
                   processedElements |-> result.processedElements,
                   cssRules |-> result.cssRules],
          markup |-> serializeToString(result.nodes, svg)]

ConvertTree(nodes, svg) == AfterConversion(nodes, svg, convertEmbeddedCSSToInline(nodes, svg))

\* what the try block does with the editor content: the error thrown, or the result
\* [error, message, ret, markup]
TryConvert(content) ==
    IF content.kind = "malformed" \/ HasTag(content.nodes, Str_parsererror)
    THEN [error |-> TRUE, message |-> "Invalid SVG format", ret |-> NoReturn, markup |-> E]
    ELSE IF FirstSvg(content.nodes) = 0
    THEN [error |-> TRUE, message |-> "No SVG element found", ret |-> NoReturn, markup |-> E]
    ELSE ConvertTree(content.nodes, FirstSvg(content.nodes))

\* mutant of ConvertFailed: the catch block also empties the output and the preview
ConvertFailedClearsOutput(message) ==
    /\ status' = [kind |-> "error", message |-> message, count |-> 0]
    /\ notification' = "Conversion failed"
    /\ outputMarkup' = E
    /\ preview' = Placeholder
    /\ UNCHANGED <<statsShown, ret>>

\* the catch block: the status and the notification carry the error message
ConvertFailed(message) ==
    /\ status' = [kind |-> "error", message |-> message, count |-> 0]
    /\ notification' = "Conversion failed"
    /\ UNCHANGED <<outputMarkup, preview, statsShown, ret>>

\* the try block ran to its end: output, preview, statistics and status are updated
ConvertSucceeded(r) ==
    /\ outputMarkup' = r.markup
    /\ preview' = [kind |-> "svg", markup |-> r.markup]
    /\ statsShown' = [convertedStyles |-> r.ret.convertedStyles,
                      processedElements |-> r.ret.processedElements]
    /\ status' = [kind |-> "success", message |-> "Converted",
                  count |-> r.ret.convertedStyles]
    /\ ret' = r.ret
    /\ UNCHANGED notification

ConvertOutcome(r) == IF r.error THEN ConvertFailed(r.message) ELSE ConvertSucceeded(r)

convertSVG ==
    IF inputEditor.kind = "blank"
    THEN /\ status' = [kind |-> "ready", message |-> "Ready to convert", count |-> 0]
         /\ UNCHANGED <<outputMarkup, preview, statsShown, notification, ret>>
    ELSE ConvertOutcome(TryConvert(inputEditor))

(***************************************************************************)
(* Handlers                                                                *)
(***************************************************************************)
\* debounce(func, wait)(): a new closure with its own timeout, called once
debounce(pending, time) == Append(pending, time + Wait)

\* the input editor's 'change' handler
OnChange ==
    /\ timers' = debounce(timers, now)
    /\ changes' = changes + 1
    /\ lastChange' = now
    /\ burst' = (burst /\ (changes = 0 \/ now - lastChange < Wait))

\* the user edits the input, or a file or the example is loaded into it
EditorChange(content) ==
    /\ changes < MaxChanges
    /\ inputEditor' = content
    /\ OnChange
    /\ UNCHANGED <<outputMarkup, preview, statsShown, status, notification, now, ret, calls>>
    /\ UNCHANGED mergeVars

\* a debounce timer comes due: later() runs convertSVG
TimerFire ==
    /\ timers # <<>>
    /\ Head(timers) <= now
    /\ timers' = Tail(timers)
    /\ calls' = calls + 1
    /\ convertSVG
    /\ UNCHANGED <<inputEditor, now, changes, lastChange, burst>>
    /\ UNCHANGED mergeVars

\* Ctrl+Enter
ConvertKey ==
    /\ convertSVG
    /\ UNCHANGED <<inputEditor, timers, now, calls, changes, lastChange, burst>>
    /\ UNCHANGED mergeVars

\* clearInput(): both editors emptied, the preview reset
ClearInput ==
    /\ changes < MaxChanges
    /\ inputEditor' = Blank
    /\ OnChange
    /\ outputMarkup' = E
    /\ preview' = Placeholder
    /\ status' = [kind |-> "ready", message |-> "Ready to convert", count |-> 0]
    /\ UNCHANGED <<statsShown, notification, now, ret, calls>>
    /\ UNCHANGED mergeVars

\* time passes; a timer that is due runs first
Tick ==
    /\ now < MaxTicks * TickStep
    /\ \A i \in 1..Len(timers) : timers[i] > now
    /\ now' = now + TickStep
    /\ UNCHANGED <<inputEditor, outputMarkup, preview, statsShown, status, notification,
                   timers, ret, calls, changes, lastChange, burst>>
    /\ UNCHANGED mergeVars

Next ==
    \/ \E content \in EditorDocs : EditorChange(content)
    \/ TimerFire
    \/ ConvertKey
    \/ ClearInput
    \/ Tick

Spec == Init /\ [][Next]_vars

(***************************************************************************)
(* The conversion specification: any document of Docs was put in the input *)
(* editor one debounce wait ago; it is converted by the timer or by        *)
(* Ctrl+Enter.                                                             *)
(***************************************************************************)
InitConv ==
    /\ inputEditor \in Docs
    /\ outputMarkup = E
    /\ preview = Placeholder
    /\ statsShown = [convertedStyles |-> 0, processedElements |-> 0]
    /\ status = [kind |-> "ready", message |-> "Ready to convert", count |-> 0]
    /\ notification = "none"
    /\ timers = debounce(<<>>, 0)
    /\ now = Wait
    /\ ret = NoReturn
    /\ calls = 0
    /\ changes = 1
    /\ lastChange = 0
    /\ burst = TRUE
    /\ NoMerge

NextConv ==
    \/ TimerFire
    \/ ConvertKey

SpecConv == InitConv /\ [][NextConv]_vars

(***************************************************************************)
(* The merge specification: applyStylesToElement on any element style text *)
(* and any incoming styles, as the passes call it.                         *)
(***************************************************************************)
\* the fragments style texts are built from, joined by ";"
DeclFragments ==
    { <<"f", ":", "1">>, <<"x", ":", "1">>, <<"1", ":", "1">>, <<" ", "f", " ", ":", " ", "3", " ">>,
      <<"x">>, <<":", "1">>, E }

RECURSIVE StyleTextsUpTo(_)
StyleTextsUpTo(n) ==
    IF n <= 1 THEN DeclFragments
    ELSE StyleTextsUpTo(n - 1)
         \cup {t \o <<";">> \o d : t \in StyleTextsUpTo(n - 1), d \in DeclFragments}

\* the declaration texts of the incoming styles
IncomingTexts ==
    { E, <<"f", ":", "2">>, <<"x", ":", "2", ";", "f", ":", "2">>, <<"y", ":", "2", ";", "x", ":", "2">>,
      <<"y", ":", "2", ";", "1", ":", "2">>, <<"2", ":", "2">>, <<"f", ":", "2", ";", "f", ":", "4">>,
      <<"y">> }

MergeElements ==
    {Plain(Str_g, 0)}
    \cup {Elem(Str_g, 0, FALSE, E, TRUE, t, E) : t \in StyleTextsUpTo(MaxDecls)}

InitMerge ==
    /\ InitEditor
    /\ mergeElement \in MergeElements
    /\ mergeDecls \in IncomingTexts
    /\ mergePrev = mergeElement
    /\ mergeDone = FALSE

\* a pass calls applyStylesToElement(element, rule.styles) for a rule with these declarations
ApplyStyles ==
    /\ ~mergeDone
    /\ mergeElement' = applyStylesToElement(mergeElement, parseStyleDeclarations(mergeDecls))
    /\ mergePrev' = mergeElement
    /\ mergeDone' = TRUE
    /\ UNCHANGED <<mergeDecls, editorVars>>

NextMerge == ApplyStyles

SpecMerge == InitMerge /\ [][NextMerge]_vars

(***************************************************************************)
(* Vocabulary of the properties: the tree, the rules and the matches of    *)
(* the last successful conversion.                                         *)
(***************************************************************************)
\* the elements of the output tree: the svg element and what is left below it
OutTree == {i \in 1..Len(ret.nodes) : i = ret.svg \/ Descendant(ret.nodes, ret.svg, i)}

\* the elements below the svg element that are not in a style element's subtree
Styled == OutTree \ {ret.svg}

RuleIds == 1..Len(ret.cssRules)

\* rule k matches element e in the structural pass
StructuralMatch(k, e) ==
    /\ SelectorValid(ret.cssRules[k].selector)
    /\ ElementMatches(ret.source[e], ParseSelector(ret.cssRules[k].selector))

\* rule k matches element e in the class-fallback pass
FallbackMatch(k, e) ==
    /\ ret.source[e].hasClass
    /\ ret.source[e].class # E
    /\ \/ ret.cssRules[k].selector = <<".">> \o ret.source[e].class
       \/ ret.cssRules[k].selector = <<"*", "[", "c", "l", "a", "s", "s", "~", "=", "\"">>
                                       \o ret.source[e].class \o <<"\"", "]">>

RuleMatches(k, e) == StructuralMatch(k, e) \/ FallbackMatch(k, e)

\* the rules that match e and declare property p
Declaring(e, p) == {k \in RuleIds : RuleMatches(k, e) /\ HasKey(ret.cssRules[k].styles, p)}

Max(S) == CHOOSE m \in S : \A n \in S : n <= m

\* the properties any rule declares
DeclaredProps == UNION {{ret.cssRules[k].styles[q][1] : q \in 1..Len(ret.cssRules[k].styles)} : k \in RuleIds}

\* the inline style of output element e gives property p the value v
FinalStyleHas(e, p, v) ==
    /\ ret.nodes[e].hasStyle
    /\ HasKey(parseInlineStyle(ret.nodes[e].style), p)
    /\ ObjGet(parseInlineStyle(ret.nodes[e].style), p) = v

\* the style elements below the svg element of the converted document, in document order
StyleElementsOf(nodes, svg) ==
    SelectSeq(Indices(nodes), LAMBDA i : nodes[i].tag = Str_style /\ Descendant(nodes, svg, i))

\* s without its leading and trailing spaces
Stripped(s) ==
    IF \A i \in 1..Len(s) : s[i] = " " THEN E
    ELSE SubSeq(s, CHOOSE a \in 1..Len(s) : s[a] # " " /\ \A i \in 1..(a - 1) : s[i] = " ",
                   CHOOSE b \in 1..Len(s) : s[b] # " " /\ \A i \in (b + 1)..Len(s) : s[i] = " ")

NoBrace(t, a, b) == \A i \in a..b : t[i] \notin {"{", "}"}

\* t[i..k] is a block selector{declarations}: the selector starts at i, "{" is at j, "}" at k
IsBlock(t, i, j, k) ==
    /\ i < j /\ j < k
    /\ t[j] = "{" /\ t[k] = "}"
    /\ NoBrace(t, i, j - 1) /\ NoBrace(t, j + 1, k - 1)
    /\ i = 1 \/ t[i - 1] \in {"{", "}"}

\* the block is well-formed: its selector and its declarations are not blank
WellFormed(t, i, j, k) ==
    /\ IsBlock(t, i, j, k)
    /\ Stripped(SubSeq(t, i, j - 1)) # E
    /\ Stripped(SubSeq(t, j + 1, k - 1)) # E

\* the rule of the block t[i..k] whose "{" is at j
RuleOfBlock(t, i, j, k) ==
    [selector |-> Stripped(SubSeq(t, i, j - 1)),
     styles   |-> parseStyleDeclarations(Stripped(SubSeq(t, j + 1, k - 1)))]

\* the well-formed block that starts at i, as a list of zero or one rules
BlockRulesAt(t, i) ==
    IF \E j \in (i + 1)..Len(t) : t[j] = "{" /\ \E k \in (j + 1)..Len(t) : WellFormed(t, i, j, k)
    THEN LET j == CHOOSE j \in (i + 1)..Len(t) :
                     t[j] = "{" /\ \E k \in (j + 1)..Len(t) : WellFormed(t, i, j, k)
             k == CHOOSE k \in (j + 1)..Len(t) : WellFormed(t, i, j, k)
         IN  <<RuleOfBlock(t, i, j, k)>>
    ELSE <<>>

\* the well-formed blocks of t from position i on, in source order
RECURSIVE BlockRulesFrom(_, _)
BlockRulesFrom(t, i) ==
    IF i > Len(t) THEN <<>> ELSE BlockRulesAt(t, i) \o BlockRulesFrom(t, i + 1)

\* the well-formed blocks of the listed style elements, element after element
RECURSIVE BlockRulesOfAll(_, _)
BlockRulesOfAll(nodes, styleElements) ==
    IF styleElements = <<>> THEN <<>>
    ELSE BlockRulesFrom(CssTextOf(nodes, Head(styleElements)), 1)
         \o BlockRulesOfAll(nodes, Tail(styleElements))

(***************************************************************************)
(* C1.  After a successful conversion no element of the output tree, the   *)
(* svg element included, carries a class attribute.                        *)
(***************************************************************************)
C1_NoClassInOutput ==
    ret.valid => \A e \in OutTree : ~ret.nodes[e].hasClass

(***************************************************************************)
(* C2.  A conversion of a document that parses without a parser error and  *)
(* has an svg element never ends in the error status.                      *)
(***************************************************************************)
C2_WellFormedNeverFails ==
    (/\ inputEditor.kind = "xml"
     /\ ~HasTag(inputEditor.nodes, Str_parsererror)
     /\ FirstSvg(inputEditor.nodes) # 0)
    => status.kind # "error"

(***************************************************************************)
(* C3.  When two or more rules match an element and declare the same       *)
(* property, the element's final inline style holds the value of the one   *)
(* that comes last in the rule list.                                       *)
(***************************************************************************)
C3_LaterRuleWins ==
    ret.valid =>
        \A e \in Styled : \A p \in DeclaredProps :
            Cardinality(Declaring(e, p)) >= 2 =>
                FinalStyleHas(e, p, ObjGet(ret.cssRules[Max(Declaring(e, p))].styles, p))

(***************************************************************************)
(* C4.  After a successful conversion the output tree holds no style       *)
(* element.                                                                *)
(***************************************************************************)
C4_NoStyleElementInOutput ==
    ret.valid => \A e \in OutTree : ret.nodes[e].tag # Str_style

\* a converted document with two style elements below svg, one of them not a child of svg
C4_Witness ==
    /\ ret.valid
    /\ Len(StyleElementsOf(ret.source, ret.svg)) >= 2
    /\ \E i \in 1..Len(ret.source) :
          ret.source[i].tag = Str_style /\ Descendant(ret.source, ret.svg, i)
          /\ ret.source[i].parent # ret.svg
    /\ status.kind = "success"

(***************************************************************************)
(* C6.  convertedStyles is the number of extracted rules; processedElements*)
(* is the number of (rule, element) matches of the structural pass plus    *)
(* the number of (rule, element) matches of the class-fallback pass.       *)
(***************************************************************************)
C6_Counters ==
    ret.valid =>
        /\ ret.convertedStyles = Len(ret.cssRules)
        /\ ret.processedElements =
              Cardinality({ke \in RuleIds \X Styled : StructuralMatch(ke[1], ke[2])})
              + Cardinality({ke \in RuleIds \X Styled : FallbackMatch(ke[1], ke[2])})
        /\ (status.kind = "success" =>
              statsShown = [convertedStyles |-> ret.convertedStyles,
                            processedElements |-> ret.processedElements])

\* a pair merged in both passes, and a rule that matches several elements
C6_Witness ==
    /\ ret.valid
    /\ \E k \in RuleIds : \E e \in Styled : StructuralMatch(k, e) /\ FallbackMatch(k, e)
    /\ \E k \in RuleIds : Cardinality({e \in Styled : StructuralMatch(k, e)}) >= 2
    /\ \E k \in RuleIds : \A e \in Styled : ~RuleMatches(k, e)

(***************************************************************************)
(* C7.  A convertSVG call that ends in the error status leaves the output  *)
(* markup, the preview and the displayed counters as they were.            *)
(***************************************************************************)
C7_FailedCallKeepsOutput ==
    [][((TimerFire \/ ConvertKey) /\ status'.kind = "error")
          => (/\ outputMarkup' = outputMarkup /\ preview' = preview
              /\ statsShown' = statsShown /\ ret' = ret
              /\ notification' = "Conversion failed")]_vars

\* a failed call after a successful one: the earlier output is still shown
C7_Witness ==
    /\ status.kind = "error"
    /\ outputMarkup # E
    /\ preview.kind = "svg"

C9_UnparsableAddsNoStyle ==
    ret.valid =>
        \A e \in Styled :
            (/\ ~ret.source[e].hasStyle
             /\ \A k \in RuleIds : RuleMatches(k, e) => ret.cssRules[k].styles = <<>>)
            => ~ret.nodes[e].hasStyle

(***************************************************************************)
(* C10.  Once the timers of a burst of changes, each less than the wait    *)
(* after the one before, have all run, convertSVG has run exactly once.    *)
(***************************************************************************)
C10_DebouncedOnce ==
    (changes >= 1 /\ burst /\ timers = <<>>) => calls = 1

(***************************************************************************)
(* C5.  applyStylesToElement writes the existing properties in their       *)
(* original order, each with the incoming value when the incoming styles   *)
(* declare it and with its own value otherwise, followed by the properties *)
(* only the incoming styles declare, in their declaration order.           *)
(***************************************************************************)
\* the fragment declares a property: a ":" after a non-blank name, before a non-blank value
Declares(fragment) ==
    \E c \in 2..Len(fragment) :
        /\ fragment[c] = ":"
        /\ \A i \in 1..(c - 1) : fragment[i] # ":"
        /\ Stripped(SubSeq(fragment, 1, c - 1)) # E
        /\ Stripped(SubSeq(fragment, c + 1, Len(fragment))) # E

Colon(fragment) == CHOOSE c \in 1..Len(fragment) : fragment[c] = ":" /\ \A i \in 1..(c - 1) : fragment[i] # ":"

PropOf(fragment) == Stripped(SubSeq(fragment, 1, Colon(fragment) - 1))

ValueOf(fragment) == Stripped(SubSeq(fragment, Colon(fragment) + 1, Len(fragment)))

\* the declarations of a text, in the order written
DeclsOf(text) == SelectSeq(Split(text, ";"), Declares)

\* the value the text gives p: that of its last declaration of p
LastValue(text, p) ==
    LET d == DeclsOf(text)
    IN  ValueOf(d[Max({i \in 1..Len(d) : PropOf(d[i]) = p})])

DeclaresProp(text, p) == \E i \in 1..Len(DeclsOf(text)) : PropOf(DeclsOf(text)[i]) = p

\* the properties of a text in the order of their first declaration
RECURSIVE FirstDeclared(_, _)
FirstDeclared(d, seen) ==
    IF d = <<>> THEN <<>>
    ELSE IF PropOf(Head(d)) \in seen THEN FirstDeclared(Tail(d), seen)
    ELSE <<PropOf(Head(d))>> \o FirstDeclared(Tail(d), seen \cup {PropOf(Head(d))})

PropsOf(text) == FirstDeclared(DeclsOf(text), {})

\* the style text the claim expects for the existing text and the incoming declarations
ExpectedStyle(existing, incoming) ==
    LET kept  == PropsOf(existing)
        added == SelectSeq(PropsOf(incoming), LAMBDA p : ~DeclaresProp(existing, p))
        entry(p) == p \o <<":">> \o (IF DeclaresProp(incoming, p) THEN LastValue(incoming, p)
                                     ELSE LastValue(existing, p))
    IN  Join([i \in 1..(Len(kept) + Len(added)) |->
                 IF i <= Len(kept) THEN entry(kept[i]) ELSE entry(added[i - Len(kept)])],
             <<";">>)

C5_MergeKeepsOrder ==
    mergeDone =>
        /\ mergeElement.hasStyle
        /\ mergeElement.style =
              ExpectedStyle(AttrOrEmpty(mergePrev.hasStyle, mergePrev.style), mergeDecls)

====
